---- MODULE Spec2Model ----
(***************************************************************************)
(* Hydrogen gas cooler design tool (src/app.py): one Streamlit script that *)
(* is rerun top to bottom on every user action.  Two buttons have          *)
(* handlers: "Run Hydrogen Cooler Design" (sizing, result display and PDF  *)
(* datasheet, all inside one try/except) and "Submit Feedback" (appends a  *)
(* row to feedback.csv).                                                   *)
(*                                                                         *)
(* Numbers.  Python floats are modelled as rationals <<n, d>> (d > 0,      *)
(* lowest terms).  The heat duty and the cooling water flow are floats of  *)
(* SigDigits significant decimal digits, rounded to nearest as an IEEE     *)
(* double is rounded at 53 bits; the transcendental library functions      *)
(* (np.log, **0.8, **0.4, np.sqrt, np.pi) and the coefficients built from  *)
(* them are evaluated to a fixed number of decimals.  The IEEE special     *)
(* values that numpy produces instead of raising (nan, inf) and Python's   *)
(* complex result of a negative float raised to a fractional power are     *)
(* kept as separate kinds of value.                                        *)
(***************************************************************************)
EXTENDS Integers, Sequences, FiniteSets, TLC

VARIABLES
    widgets,        \* the values of the input widgets (lines 35-105)
    button,         \* the button that triggered the last rerun
    ns,             \* the script's variables and page output after that rerun
    name,           \* st.text_input "Your Name" (line 257)
    feedback_text,  \* st.text_area "Your Feedback" (line 258)
    file,           \* feedback.csv
    clock,          \* datetime.now()
    sess,           \* concurrent sessions inside the feedback handler
    ref             \* observer: one earlier design run, kept for comparison

vars == <<widgets, button, ns, name, feedback_text, file, clock, sess, ref>>

-----------------------------------------------------------------------------
(* Exact rational arithmetic standing for Python float arithmetic.         *)

Abs(x) == IF x < 0 THEN -x ELSE x

RECURSIVE GCD(_, _)
GCD(a, b) == IF b = 0 THEN a ELSE GCD(b, a % b)

\* n/d in lowest terms with a positive denominator (d # 0)
R(n, d) ==
    IF n = 0 THEN <<0, 1>>
    ELSE LET s == IF d < 0 THEN -1 ELSE 1
             g == GCD(Abs(n), Abs(d))
         IN  <<(s * n) \div g, (s * d) \div g>>

RInt(k) == <<k, 1>>

RNeg(a) == <<-a[1], a[2]>>

RAdd(a, b) ==
    IF a[1] = 0 THEN b
    ELSE IF b[1] = 0 THEN a
    ELSE LET g == GCD(a[2], b[2])
         IN  R(a[1] * (b[2] \div g) + b[1] * (a[2] \div g),
               (a[2] \div g) * b[2])

RSub(a, b) == RAdd(a, RNeg(b))

\* the factors are cancelled crosswise before multiplying
RMul(a, b) ==
    IF a[1] = 0 \/ b[1] = 0 THEN <<0, 1>>
    ELSE LET g1 == GCD(Abs(a[1]), b[2])
             g2 == GCD(Abs(b[1]), a[2])
         IN  <<(a[1] \div g1) * (b[1] \div g2), (a[2] \div g2) * (b[2] \div g1)>>

\* 1/b for b # 0
RInv(b) == IF b[1] < 0 THEN <<-b[2], -b[1]>> ELSE <<b[2], b[1]>>

\* b # 0: a Python float division by zero raises before this is used
RDiv(a, b) == RMul(a, RInv(b))

RIsZero(a) == a[1] = 0

RSign(a) == IF a[1] > 0 THEN 1 ELSE IF a[1] < 0 THEN -1 ELSE 0

RLeq(a, b) == RSign(RSub(a, b)) <= 0

RLess(a, b) == RSign(RSub(a, b)) < 0

\* floor and ceiling of a rational (\div rounds towards minus infinity)
RFloor(a) == a[1] \div a[2]

RCeil(a) == -((-a[1]) \div a[2])

\* a rounded to dp decimals, as an integer count of 10^-dp (ties away from
\* zero); Pow10 covers the precisions used
Pow10(dp) == CASE dp = 0 -> 1 [] dp = 1 -> 10 [] dp = 2 -> 100
               [] dp = 3 -> 1000 [] dp = 4 -> 10000

RECURSIVE FloatScale(_)
FloatScale(dp) == IF dp = 0 THEN 1 ELSE 10 * FloatScale(dp - 1)

RoundTo(a, dp) ==
    IF a[1] = 0 THEN 0
    ELSE LET m == Abs(a[1])
             q == (m \div a[2]) * Pow10(dp)
                  + (((m % a[2]) * Pow10(dp) * 2 + a[2]) \div (2 * a[2]))
         IN  IF a[1] < 0 THEN -q ELSE q

RRound(a, dp) == R(RoundTo(a, dp), Pow10(dp))

\* significant decimal digits of a float
SigDigits == 5

\* q + r/d carried to k more decimal digits by long division, rounded to
\* nearest (r < d)
RECURSIVE LongDiv(_, _, _, _)
LongDiv(q, r, d, k) ==
    IF k = 0 THEN (IF 2 * r >= d THEN q + 1 ELSE q)
    ELSE LongDiv(q * 10 + ((r * 10) \div d), (r * 10) % d, d, k - 1)

\* decimal digits of the positive integer n
RECURSIVE IntDigits(_)
IntDigits(n) == IF n < 10 THEN 1 ELSE 1 + IntDigits(n \div 10)

\* zero decimals after the point of r/d, 0 < r < d
RECURSIVE LeadingZeros(_, _)
LeadingZeros(r, d) == IF r * 10 >= d THEN 0 ELSE 1 + LeadingZeros(r * 10, d)

\* the float nearest to a: SigDigits significant digits, or every digit of
\* the integer part when that has more
Float(a) ==
    IF a[1] = 0 \/ a[2] = 1 THEN a
    ELSE LET m == Abs(a[1])
             i == m \div a[2]
             dp == IF i = 0 THEN SigDigits + LeadingZeros(m, a[2])
                   ELSE IF IntDigits(i) >= SigDigits THEN 0
                   ELSE SigDigits - IntDigits(i)
             q == LongDiv(i, m % a[2], a[2], dp)
         IN  R(IF a[1] < 0 THEN -q ELSE q, FloatScale(dp))

-----------------------------------------------------------------------------
(* Library functions of the calculation, evaluated to fixed precision.     *)

\* np.pi to four decimals
Pi == R(31416, 10000)

RECURSIVE ISqrtIter(_, _, _)
ISqrtIter(n, lo, hi) ==
    IF lo >= hi THEN lo
    ELSE LET mid == (lo + hi + 1) \div 2
         IN  IF mid * mid <= n THEN ISqrtIter(n, mid, hi)
             ELSE ISqrtIter(n, lo, mid - 1)

\* largest r with r*r <= n
ISqrt(n) == ISqrtIter(n, 0, 46340)

\* square root of a rational a >= 0 to two decimals
Sqrt(a) == R(ISqrt(RoundTo(a, 4)), 100)

Pow5(r) == r * r * r * r * r

RECURSIVE IRoot5Iter(_, _)
IRoot5Iter(n, r) == IF Pow5(r + 1) <= n THEN IRoot5Iter(n, r + 1) ELSE r

\* largest r with r^5 <= n (n < 73^5)
IRoot5(n) == IRoot5Iter(n, 0)

\* fifth root of the integer n >= 0, interpolated linearly between the
\* neighbouring fifth powers, to three decimals
Root5Int(n) ==
    LET r == IRoot5(n)
    IN  RRound(RAdd(RInt(r), R(n - Pow5(r), Pow5(r + 1) - Pow5(r))), 3)

\* fifth root of a rational a >= 0: a is scaled by 10^5 below 1000 to keep
\* the digits
Root5(a) ==
    IF RLess(a, RInt(1000))
    THEN RDiv(Root5Int(RoundTo(RMul(a, RInt(100000)), 0)), RInt(10))
    ELSE Root5Int(RoundTo(a, 0))

\* a ** 0.8 and a ** 0.4 for a > 0
Pow08(a) ==
    LET b == IF RLess(a, RInt(1000)) THEN RRound(a, 2) ELSE RRound(a, 0)
    IN  RRound(RDiv(b, Root5(b)), 1)

Pow04(a) == RRound(Root5(RRound(RMul(a, a), 4)), 3)

Ln2 == R(6931, 10000)

\* natural logarithm of a rational a > 0: a = 2^k * m with m in [3/4, 3/2),
\* ln m = 2 (z + z^3/3) for z = (m - 1)/(m + 1), to four decimals
RECURSIVE Ln(_)
Ln(a) ==
    IF ~RLess(a, R(3, 2)) THEN RAdd(Ln2, Ln(RDiv(a, RInt(2))))
    ELSE IF RLess(a, R(3, 4)) THEN RSub(Ln(RMul(a, RInt(2))), Ln2)
    ELSE LET z == RRound(RDiv(RSub(a, RInt(1)), RAdd(a, RInt(1))), 3)
             y == RRound(z, 2)
             z3 == RMul(y, RMul(y, y))
         IN  RRound(RMul(RInt(2), RAdd(z, RDiv(z3, RInt(3)))), 4)

-----------------------------------------------------------------------------
(* Values of the numpy part of the calculation: a number, or one of the    *)
(* values numpy returns where Python arithmetic would raise.               *)

Num(q) == [k |-> "num", q |-> q]

NaN == [k |-> "nan", q |-> <<0, 1>>]

\* s = 1 for inf, -1 for -inf
Inf(s) == [k |-> "inf", q |-> <<s, 1>>]

\* a Python complex (a negative float raised to a fractional power); its
\* value is not tracked
Cplx == [k |-> "complex", q |-> <<0, 1>>]

-----------------------------------------------------------------------------
(* CoolProp's PropsSI (external library).  A state point outside the       *)
(* fluid's range raises ValueError; inside it the property is a positive   *)
(* number fixed by (T, P): ideal-gas density, constant Cp, viscosity,      *)
(* conductivity and Prandtl number.                                        *)

Tmin(fluid) == IF fluid = "Hydrogen" THEN R(13957, 1000) ELSE R(27316, 100)

Tmax(fluid) == IF fluid = "Hydrogen" THEN RInt(1000) ELSE RInt(2000)

PropsSI_ok(T, P, fluid) ==
    /\ RLeq(Tmin(fluid), T)
    /\ RLeq(T, Tmax(fluid))
    /\ RSign(P) > 0

PropsSI(prop, T, P, fluid) ==
    CASE prop = "D" -> RRound(RDiv(P, RMul(RInt(4124), T)), 1)
      [] prop = "C" -> IF fluid = "Hydrogen" THEN RInt(14300) ELSE RInt(4180)
      [] prop = "V" -> R(1, 100000)
      [] prop = "L" -> R(2, 10)
      [] prop = "PRANDTL" -> R(7, 10)

-----------------------------------------------------------------------------------------------------------------------------------------------------
(* The script's namespace.  A rerun assigns the widget values at the top   *)
(* of the script (lines 35-105); the variables of the calculation section  *)
(* are unset until their statement runs.  The record also carries what the *)
(* rerun put on the page.                                                  *)

Unset == <<0, 0>>

UnsetVal == [k |-> "unset", q |-> <<0, 0>>]

\* a cooling water flow left in the namespace by the rerun before
SuppliedFlow_kept(w) ==
    IF w.auto_water THEN Unset
    ELSE IF ns.m_dot_cold # Unset THEN ns.m_dot_cold ELSE w.m_dot_cold

\* lines 76-81: the cooling water flow widget is shown, and m_dot_cold
\* assigned from it, only when the auto box is unticked
SuppliedFlow(w) == IF w.auto_water THEN Unset ELSE w.m_dot_cold

\* w: the widget values of this rerun; build_ok: whether reportlab's
\* doc.build succeeds in this rerun (external library)
Namespace(w) ==
    [flow_hot_nm3_hr |-> w.flow_hot_nm3_hr, T_hot_in_C |-> w.T_hot_in_C,
     T_hot_out_C |-> w.T_hot_out_C, P_hot_bar |-> w.P_hot_bar,
     T_cold_in_C |-> w.T_cold_in_C, T_cold_out_C |-> w.T_cold_out_C,
     P_cold_bar |-> w.P_cold_bar, auto_water |-> w.auto_water,
     m_dot_cold |-> SuppliedFlow(w),
     D_i |-> w.D_i, t_wall |-> w.t_wall,
     velocity_target |-> w.velocity_target, passes |-> w.passes,
     build_ok |-> w.build_ok,
     T_hot_in |-> Unset, T_hot_out |-> Unset, T_cold_in |-> Unset,
     T_cold_out |-> Unset, P_hot |-> Unset, P_cold |-> Unset,
     flow_hot_m3_s |-> Unset, rho_h |-> Unset, Cp_h |-> Unset,
     mu_h |-> Unset, k_h |-> Unset, Pr_h |-> Unset, m_dot_h |-> Unset,
     Q |-> Unset, Cp_water |-> Unset, A_single |-> Unset, N_per_pass |-> 0,
     N_total |-> 0, velocity |-> Unset, Re_h |-> Unset, Nu_h |-> UnsetVal,
     h_hot |-> UnsetVal, U |-> UnsetVal, deltaT1 |-> Unset,
     deltaT2 |-> Unset, LMTD |-> UnsetVal, F |-> Unset,
     A_required |-> UnsetVal, D_o |-> Unset, D_shell |-> UnsetVal,
     results |-> <<>>, table_data |-> <<>>, download |-> FALSE,
     error |-> "", exc |-> ""]

-----------------------------------------------------------------------------
(* CALCULATION SECTION (lines 113-169): the right-hand side of each        *)
(* assignment, read from the namespace v as the statement reads it.        *)

T_hot_in(v) == RAdd(v.T_hot_in_C, R(27315, 100))

T_hot_out(v) == RAdd(v.T_hot_out_C, R(27315, 100))

T_cold_in(v) == RAdd(v.T_cold_in_C, R(27315, 100))

T_cold_out(v) == RAdd(v.T_cold_out_C, R(27315, 100))

P_hot(v) == RMul(v.P_hot_bar, RInt(100000))

P_cold(v) == RMul(v.P_cold_bar, RInt(100000))

flow_hot_m3_s(v) == RDiv(v.flow_hot_nm3_hr, RInt(3600))

rho_h(v) == PropsSI("D", v.T_hot_in, v.P_hot, "Hydrogen")

Cp_h(v) == PropsSI("C", v.T_hot_in, v.P_hot, "Hydrogen")

mu_h(v) == PropsSI("V", v.T_hot_in, v.P_hot, "Hydrogen")

k_h(v) == PropsSI("L", v.T_hot_in, v.P_hot, "Hydrogen")

Pr_h(v) == PropsSI("PRANDTL", v.T_hot_in, v.P_hot, "Hydrogen")

m_dot_h(v) == RMul(v.rho_h, v.flow_hot_m3_s)

Q(v) == Float(RMul(Float(RMul(v.m_dot_h, v.Cp_h)),
                    RSub(v.T_hot_in, v.T_hot_out)))

Cp_water(v) == PropsSI("C", v.T_cold_in, v.P_cold, "Water")

\* the divisor of line 138
ColdDivisor(v) == Float(RMul(v.Cp_water, RSub(v.T_cold_out, v.T_cold_in)))

\* the cooling water flow with the temperature rise left out of the divisor
m_dot_cold_no_rise(v) == Float(RDiv(v.Q, v.Cp_water))

m_dot_cold(v) == Float(RDiv(v.Q, ColdDivisor(v)))

A_single(v) == RDiv(RMul(Pi, RMul(v.D_i, v.D_i)), RInt(4))

\* the divisor of line 142
TubeDivisor(v) == RMul(RMul(v.rho_h, v.velocity_target), v.A_single)

\* the continuous tube requirement, the argument of np.ceil
RawTubes(v) == RDiv(v.m_dot_h, TubeDivisor(v))

\* the tube count rounded down instead of up
N_per_pass_floor(v) == RFloor(RawTubes(v))

N_per_pass(v) == RCeil(RawTubes(v))

N_total(v) == v.N_per_pass * v.passes

\* the divisor of line 144
VelocityDivisor(v) == RMul(RMul(v.rho_h, RInt(v.N_per_pass)), v.A_single)

velocity(v) == RDiv(v.m_dot_h, VelocityDivisor(v))

Re_h(v) == RDiv(RMul(RMul(v.rho_h, v.velocity), v.D_i), v.mu_h)

\* Python gives a complex number for a negative float ** 0.8
Nu_h(v) ==
    IF RSign(v.Re_h) < 0 THEN Cplx
    ELSE IF RSign(v.Re_h) = 0 THEN Num(RInt(0))
    ELSE Num(RMul(RMul(R(23, 1000), Pow08(v.Re_h)), Pow04(v.Pr_h)))

\* carried to one decimal
h_hot(v) ==
    IF v.Nu_h.k = "complex" THEN Cplx
    ELSE Num(RRound(RDiv(RMul(v.Nu_h.q, v.k_h), v.D_i), 1))

h_shell == 3000

Rf_i == R(1, 10000)

Rf_o == R(2, 10000)

k_tube == 16

\* the sum of resistances of line 157, for a real nonzero h_hot
Resistance(v) ==
    RAdd(RAdd(RAdd(RAdd(RInv(v.h_hot.q), Rf_i), RDiv(v.t_wall, RInt(k_tube))),
              RInv(RInt(h_shell))),
         Rf_o)

\* carried to one decimal
U(v) ==
    IF v.h_hot.k = "complex" THEN Cplx
    ELSE Num(RRound(RInv(Resistance(v)), 1))

deltaT1(v) == RSub(v.T_hot_in, v.T_cold_out)

deltaT2(v) == RSub(v.T_hot_out, v.T_cold_in)

\* np.log of a float: nan below zero, -inf at zero, no exception
NpLog(x) ==
    IF RSign(x) < 0 THEN NaN
    ELSE IF RSign(x) = 0 THEN Inf(-1)
    ELSE Num(Ln(x))

\* line 162 (deltaT2 # 0): a Python float divided by a numpy float64 is a
\* numpy division, which returns nan or inf and does not raise; carried to
\* two decimals
LMTD(v) ==
    LET lg == NpLog(RDiv(v.deltaT1, v.deltaT2))
        d == RSub(v.deltaT1, v.deltaT2)
    IN  IF lg.k = "nan" THEN NaN
        ELSE IF lg.k = "inf" THEN Num(RInt(0))
        ELSE IF RIsZero(lg.q)
             THEN IF RIsZero(d) THEN NaN ELSE Inf(RSign(d))
        ELSE Num(RRound(RDiv(d, lg.q), 2))

\* the correction applied from four passes only
F_four(v) == IF v.passes <= 2 THEN RInt(1) ELSE R(85, 100)

F(v) == IF v.passes = 1 THEN RInt(1) ELSE R(85, 100)

\* line 165: the divisor is a numpy value, so a zero divisor gives inf or
\* nan and does not raise; carried to two decimals
A_required(v) ==
    IF v.U.k = "complex" THEN Cplx
    ELSE IF v.LMTD.k = "nan" THEN NaN
    ELSE IF v.LMTD.k = "inf" THEN Num(RInt(0))
    ELSE IF RIsZero(v.LMTD.q)
         THEN IF RIsZero(v.Q) THEN NaN
              ELSE Inf(RSign(v.Q) * RSign(v.deltaT2))
    ELSE Num(RRound(RDiv(RRound(v.Q, 1),
                         RRound(RMul(RMul(v.U.q, v.F), v.LMTD.q), 1)), 2))

D_o(v) == RAdd(v.D_i, RMul(RInt(2), v.t_wall))

K == R(9, 10)

\* np.sqrt of a negative number is nan
D_shell(v) ==
    IF v.N_total < 0 THEN NaN
    ELSE Num(RMul(v.D_o, Sqrt(RDiv(RInt(v.N_total), RMul(R(785, 1000), K)))))

-----------------------------------------------------------------------------
(* DISPLAY RESULTS (lines 175-183) and the PDF table (lines 197-206).      *)
(* A formatted number is the count of 10^-dp units it shows.               *)

\* f"{x:.<dp>f}" of a Python float
FmtR(q, dp) == [k |-> "fixed", v |-> RoundTo(q, dp), dp |-> dp]

\* f"{x:.<dp>f}" of a value that may be nan, inf or complex
Fmt(x, dp) ==
    IF x.k = "num" THEN FmtR(x.q, dp)
    ELSE IF x.k = "inf" THEN [k |-> "inf", v |-> x.q[1], dp |-> dp]
    ELSE [k |-> x.k, v |-> 0, dp |-> dp]

\* an int, printed as it is
FmtInt(n) == [k |-> "int", v |-> n, dp |-> 0]

\* a float handed to the table unformatted (reportlab prints str(x))
Str(q) == [k |-> "str", v |-> RoundTo(q, 3), dp |-> 3]

Txt(t) == [k |-> t, v |-> 0, dp |-> 0]

Line(label, value, unit) == [label |-> label, value |-> value, unit |-> unit]

\* the seven st.write lines
ResultLines(v) ==
    << Line("Heat Duty", FmtR(RDiv(v.Q, RInt(1000)), 2), "kW"),
       Line("Cooling Water Flow", FmtR(v.m_dot_cold, 2), "kg/s"),
       Line("Overall U", Fmt(v.U, 1), "W/m2-K"),
       Line("Required Area", Fmt(v.A_required, 2), "m2"),
       Line("Total Tubes", FmtInt(v.N_total), ""),
       Line("Shell Diameter", Fmt(v.D_shell, 2), "m"),
       Line("Tube Velocity", FmtR(v.velocity, 2), "m/s") >>

\* the table with the overall coefficient printed to two decimals
table_data_two_decimals(v) ==
    << Line("Parameter", Txt("Value"), ""),
       Line("Hydrogen Flow", Str(v.flow_hot_nm3_hr), "Nm3/hr"),
       Line("Heat Duty", FmtR(RDiv(v.Q, RInt(1000)), 2), "kW"),
       Line("Cooling Water Flow", FmtR(v.m_dot_cold, 2), "kg/s"),
       Line("Overall U", Fmt(v.U, 2), "W/m2-K"),
       Line("Required Area", Fmt(v.A_required, 2), "m2"),
       Line("Total Tubes", FmtInt(v.N_total), ""),
       Line("Shell Diameter", Fmt(v.D_shell, 2), "m") >>

table_data(v) ==
    << Line("Parameter", Txt("Value"), ""),
       Line("Hydrogen Flow", Str(v.flow_hot_nm3_hr), "Nm3/hr"),
       Line("Heat Duty", FmtR(RDiv(v.Q, RInt(1000)), 2), "kW"),
       Line("Cooling Water Flow", FmtR(v.m_dot_cold, 2), "kg/s"),
       Line("Overall U", Fmt(v.U, 1), "W/m2-K"),
       Line("Required Area", Fmt(v.A_required, 2), "m2"),
       Line("Total Tubes", FmtInt(v.N_total), ""),
       Line("Shell Diameter", Fmt(v.D_shell, 2), "m") >>

-----------------------------------------------------------------------------
(* The try block (lines 113-226), statement by statement.  A statement     *)
(* that raises records the exception and the rest of the block is skipped. *)

Raise(v, e) == [v EXCEPT !.exc = e]

\* the statement (or group of independent statements) at a source line
Step(v, line) ==
    CASE line = 116 ->
           [v EXCEPT !.T_hot_in = T_hot_in(v), !.T_hot_out = T_hot_out(v),
                     !.T_cold_in = T_cold_in(v), !.T_cold_out = T_cold_out(v),
                     !.P_hot = P_hot(v), !.P_cold = P_cold(v),
                     !.flow_hot_m3_s = flow_hot_m3_s(v)]
      [] line = 126 ->
           IF ~PropsSI_ok(v.T_hot_in, v.P_hot, "Hydrogen")
           THEN Raise(v, "ValueError")
           ELSE [v EXCEPT !.rho_h = rho_h(v), !.Cp_h = Cp_h(v),
                          !.mu_h = mu_h(v), !.k_h = k_h(v), !.Pr_h = Pr_h(v)]
      [] line = 132 -> [v EXCEPT !.m_dot_h = m_dot_h(v)]
      [] line = 133 -> [v EXCEPT !.Q = Q(v)]
      [] line = 137 ->
           IF ~v.auto_water THEN v
           ELSE IF ~PropsSI_ok(v.T_cold_in, v.P_cold, "Water")
           THEN Raise(v, "ValueError")
           ELSE [v EXCEPT !.Cp_water = Cp_water(v)]
      [] line = 138 ->
           IF ~v.auto_water THEN v
           ELSE IF RIsZero(ColdDivisor(v)) THEN Raise(v, "ZeroDivisionError")
           ELSE [v EXCEPT !.m_dot_cold = m_dot_cold(v)]
      [] line = 141 -> [v EXCEPT !.A_single = A_single(v)]
      [] line = 142 ->
           IF RIsZero(TubeDivisor(v)) THEN Raise(v, "ZeroDivisionError")
           ELSE [v EXCEPT !.N_per_pass = N_per_pass(v)]
      [] line = 143 -> [v EXCEPT !.N_total = N_total(v)]
      [] line = 144 ->
           IF RIsZero(VelocityDivisor(v)) THEN Raise(v, "ZeroDivisionError")
           ELSE [v EXCEPT !.velocity = velocity(v)]
      [] line = 147 -> [v EXCEPT !.Re_h = Re_h(v)]
      [] line = 148 -> [v EXCEPT !.Nu_h = Nu_h(v)]
      [] line = 149 ->
           IF RIsZero(v.D_i) THEN Raise(v, "ZeroDivisionError")
           ELSE [v EXCEPT !.h_hot = h_hot(v)]
      [] line = 157 ->
           IF v.h_hot.k = "num" /\ RIsZero(v.h_hot.q)
           THEN Raise(v, "ZeroDivisionError")
           ELSE IF v.h_hot.k = "num" /\ RIsZero(Resistance(v))
           THEN Raise(v, "ZeroDivisionError")
           ELSE [v EXCEPT !.U = U(v)]
      [] line = 160 -> [v EXCEPT !.deltaT1 = deltaT1(v), !.deltaT2 = deltaT2(v)]
      [] line = 162 ->
           IF RIsZero(v.deltaT2) THEN Raise(v, "ZeroDivisionError")
           ELSE [v EXCEPT !.LMTD = LMTD(v)]
      [] line = 164 -> [v EXCEPT !.F = F(v)]
      [] line = 165 -> [v EXCEPT !.A_required = A_required(v)]
      [] line = 167 -> [v EXCEPT !.D_o = D_o(v)]
      [] line = 169 -> [v EXCEPT !.D_shell = D_shell(v)]
      [] line = 177 -> [v EXCEPT !.results = ResultLines(v)]
      [] line = 197 -> [v EXCEPT !.table_data = table_data(v)]
      [] line = 216 -> IF v.build_ok THEN v ELSE Raise(v, "LayoutError")
      [] line = 221 -> [v EXCEPT !.download = TRUE]

Program ==
    << 116, 126, 132, 133, 137, 138, 141, 142, 143, 144, 147, 148, 149, 157,
       160, 162, 164, 165, 167, 169, 177, 197, 216, 221 >>

RECURSIVE Exec(_, _)
Exec(v, k) ==
    IF v.exc # "" \/ k > Len(Program) THEN v
    ELSE Exec(Step(v, Program[k]), k + 1)

TryBlock(v) == Exec(v, 1)

\* except Exception as e: st.error("Calculation Error"); st.write(e)
Except(v) == IF v.exc # "" THEN [v EXCEPT !.error = "Calculation Error"] ELSE v

-----------------------------------------------------------------------------
(* Widget values.                                                          *)

Defaults ==
    [flow_hot_nm3_hr |-> RInt(750), T_hot_in_C |-> RInt(80),
     T_hot_out_C |-> RInt(40), P_hot_bar |-> RInt(16),
     T_cold_in_C |-> RInt(35), T_cold_out_C |-> RInt(40),
     P_cold_bar |-> RInt(3), auto_water |-> TRUE, m_dot_cold |-> RInt(7),
     D_i |-> R(25, 1000), t_wall |-> R(2, 1000),
     velocity_target |-> RInt(9), passes |-> 1, build_ok |-> TRUE]

\* the values a user enters in the design runs: the defaults, and values
\* that cross the temperatures, zero or reverse the flow and the velocity,
\* or leave the property library's range
Entered ==
    [flow_hot_nm3_hr |-> {RInt(-750), RInt(0), RInt(750)},
     T_hot_in_C |-> {RInt(80), RInt(-300)},
     T_hot_out_C |-> {RInt(40), RInt(35), RInt(30), RInt(75)},
     T_cold_out_C |-> {RInt(40), RInt(35), RInt(80), RInt(90)},
     auto_water |-> BOOLEAN,
     m_dot_cold |-> {RInt(7)},
     velocity_target |-> {RInt(9), RInt(0), RInt(-9)},
     passes |-> {1, 2, 4}]

\* the values entered where design runs and feedback submissions mix
EnteredApp ==
    [flow_hot_nm3_hr |-> {RInt(750)},
     T_hot_in_C |-> {RInt(80)},
     T_hot_out_C |-> {RInt(40), RInt(35)},
     T_cold_out_C |-> {RInt(40)},
     auto_water |-> BOOLEAN,
     m_dot_cold |-> {RInt(7)},
     velocity_target |-> {RInt(9)},
     passes |-> {1}]

\* feedback submissions accepted in one behaviour
MaxFeedback == 2

\* concurrent browser sessions
NSessions == 3

\* feedback submissions accepted from all sessions together
MaxConcurrent == 3

Names == {"", "ann"}

Texts == {"", "ok"}

-----------------------------------------------------------------------------
(* feedback.csv: whether the file exists, and its lines.                   *)

Header == [kind |-> "header", Timestamp |-> 0, Name |-> "Name",
           Feedback |-> "Feedback"]

\* pd.DataFrame([feedback_data]) (lines 262-269)
Row(ts, n, t) == [kind |-> "row", Timestamp |-> ts, Name |-> n, Feedback |-> t]

\* every write made in write mode
ToCsv_truncate(f, row, file_exists) ==
    [exists |-> TRUE, lines |-> <<Header, row>>]

\* every write made with its header
ToCsv_header(f, row, file_exists) ==
    IF file_exists
    THEN [exists |-> TRUE, lines |-> f.lines \o <<Header, row>>]
    ELSE [exists |-> TRUE, lines |-> <<Header, row>>]

\* lines 271-274: df.to_csv in append mode without header when the check
\* of line 268 saw the file, else in write mode, which truncates, with header
ToCsv(f, row, file_exists) ==
    IF file_exists
    THEN [exists |-> TRUE, lines |-> Append(f.lines, row)]
    ELSE [exists |-> TRUE, lines |-> <<Header, row>>]

\* the page as first loaded, and no feedback.csv yet
InitPage ==
    /\ widgets = Defaults
    /\ button = "none"
    /\ ns = Namespace(Defaults)
    /\ name = ""
    /\ feedback_text = ""
    /\ file = [exists |-> FALSE, lines |-> <<>>]
    /\ clock = 0
    /\ ref = [set |-> FALSE, fed |-> FALSE, widgets |-> Defaults,
              ns |-> Namespace(Defaults)]

Init ==
    /\ InitPage
    /\ sess = <<>>

\* the script rerun with widget values w and no run button pressed
Rerun(w) ==
    /\ widgets' = w
    /\ button' = "none"
    /\ ns' = Namespace(w)

\* a user changes one input widget; E gives the values entered
Edit(E) ==
    \/ \E x \in E.flow_hot_nm3_hr : Rerun([widgets EXCEPT !.flow_hot_nm3_hr = x])
    \/ \E x \in E.T_hot_in_C : Rerun([widgets EXCEPT !.T_hot_in_C = x])
    \/ \E x \in E.T_hot_out_C : Rerun([widgets EXCEPT !.T_hot_out_C = x])
    \/ \E x \in E.T_cold_out_C : Rerun([widgets EXCEPT !.T_cold_out_C = x])
    \/ \E x \in E.auto_water :
         Rerun([widgets EXCEPT !.auto_water = x, !.m_dot_cold = RInt(7)])
    \/ \E x \in E.m_dot_cold :
         ~widgets.auto_water /\ Rerun([widgets EXCEPT !.m_dot_cold = x])
    \/ \E x \in E.velocity_target : Rerun([widgets EXCEPT !.velocity_target = x])
    \/ \E x \in E.passes : Rerun([widgets EXCEPT !.passes = x])

\* "Run Hydrogen Cooler Design" (lines 111-230)
RunDesign ==
    \E ok \in BOOLEAN :
        /\ widgets' = [widgets EXCEPT !.build_ok = ok]
        /\ button' = "run"
        /\ ns' = Except(TryBlock(Namespace(widgets')))

\* "Submit Feedback" (lines 260-276), one submission at a time; the rerun
\* shows no design results
SubmitFeedback(n, t) ==
    /\ (n # "" /\ t # "") => clock < MaxFeedback
    /\ name' = n
    /\ feedback_text' = t
    /\ button' = "feedback"
    /\ ns' = Namespace(widgets)
    /\ IF n # "" /\ t # ""
       THEN /\ file' = ToCsv(file, Row(clock, n, t), file.exists)
            /\ clock' = clock + 1
       ELSE UNCHANGED <<file, clock>>
    /\ UNCHANGED <<widgets, sess, ref>>

\* the observer keeps the run just made, or the one it already has
Observe ==
    \/ ref' = [set |-> TRUE, fed |-> file.exists, widgets |-> widgets',
               ns |-> ns']
    \/ ref' = ref

\* design runs alone
Next ==
    \/ Edit(Entered) /\ UNCHANGED <<name, feedback_text, file, clock, sess, ref>>
    \/ RunDesign /\ UNCHANGED <<name, feedback_text, file, clock, sess, ref>>

Spec == Init /\ [][Next]_vars

\* one user: design runs and feedback submissions in any order
NextApp ==
    \/ Edit(EnteredApp)
         /\ UNCHANGED <<name, feedback_text, file, clock, sess, ref>>
    \/ RunDesign /\ Observe /\ UNCHANGED <<name, feedback_text, file, clock, sess>>
    \/ \E n \in Names, t \in Texts : SubmitFeedback(n, t)

SpecApp == Init /\ [][NextApp]_vars


-----------------------------------------------------------------------------
(* Properties of the design run, checked under Spec.                       *)

\* the last rerun was a design run that ended with the download offered
Completed == button = "run" /\ ns.error = "" /\ ns.download

\* the last rerun was a design run that got past the statement at line 160
PastDeltaT == button = "run" /\ ns.deltaT1 # Unset

\* C1: a design run whose deltaT1 <= 0, or deltaT2 <= 0, or deltaT1 =
\* deltaT2 ends in the "Calculation Error" outcome and displays no result.
C1_LMTDFails ==
    (PastDeltaT /\ (\/ RSign(ns.deltaT1) <= 0
                    \/ RSign(ns.deltaT2) <= 0
                    \/ ns.deltaT1 = ns.deltaT2))
        => (ns.error = "Calculation Error" /\ ns.results = <<>>)

\* C2: every design run ends either with all seven results displayed, the
\* download offered and no error, or with the error shown, no result line
\* displayed and no download offered.
C2_TwoOutcomes ==
    button = "run" =>
        \/ Len(ns.results) = 7 /\ ns.download /\ ns.error = ""
        \/ ns.error = "Calculation Error" /\ ns.results = <<>> /\ ~ns.download

\* the last rerun was a design run that assigned N_per_pass at line 142
PastTubeCount ==
    button = "run" /\ ns.A_single # Unset /\ ~RIsZero(TubeDivisor(ns))

\* mass_flow / (density * target_velocity * single_tube_area)
C3_raw ==
    RDiv(ns.m_dot_h, RMul(RMul(ns.rho_h, ns.velocity_target), ns.A_single))

\* C3: the tubes-per-pass count is the ceiling of the raw requirement: an
\* integer with N_per_pass >= raw and N_per_pass - raw < 1.
C3_Ceiling ==
    PastTubeCount =>
        /\ ns.N_per_pass \in Int
        /\ RLeq(C3_raw, RInt(ns.N_per_pass))
        /\ RLess(RSub(RInt(ns.N_per_pass), C3_raw), RInt(1))

C3_Witness ==
    /\ Completed
    /\ ns.N_per_pass = 48
    /\ RLess(C3_raw, RInt(48))
    /\ RLess(RInt(47), C3_raw)

\* C4: in every completed design run the achieved tube velocity is at most
\* the target tube velocity.
C4_VelocityBelowTarget ==
    Completed => RLeq(ns.velocity, ns.velocity_target)

\* the labels and values of the rows of the PDF table
C5_TableRows ==
    {[label |-> ns.table_data[j].label, value |-> ns.table_data[j].value] :
        j \in DOMAIN ns.table_data}

C5_OnTable(line) == [label |-> line.label, value |-> line.value] \in C5_TableRows

C6_ColdDuty ==
    RMul(RMul(ns.m_dot_cold, ns.Cp_water), RSub(ns.T_cold_out, ns.T_cold_in))

C6_AutoCompleted == Completed /\ ns.auto_water

C6_Gap ==
    LET e == RSub(C6_ColdDuty, ns.Q) IN <<Abs(e[1]), e[2]>>

\* one unit in the last significant digit of Q
C6_Unit == RDiv(<<Abs(ns.Q[1]), ns.Q[2]>>, RInt(FloatScale(SigDigits - 1)))

PastF == button = "run" /\ ns.F # Unset

\* C7: F is 1.0 when passes = 1 and 0.85 when passes is 2 or 4, whatever
\* the other inputs are.
C7_CorrectionFactor ==
    PastF =>
        /\ ns.passes = 1 => ns.F = <<1, 1>>
        /\ ns.passes \in {2, 4} => ns.F = <<17, 20>>

C7_Witness ==
    /\ Completed
    /\ ns.passes = 2
    /\ ns.F = <<17, 20>>
    /\ ns.T_hot_out_C # Defaults.T_hot_out_C

-----------------------------------------------------------------------------
(* Properties of one user's session, checked under SpecApp.                *)

\* feedback.csv is one header followed by the accepted submissions in the
\* order they were made
C8_FileShape ==
    IF file.exists
    THEN /\ Len(file.lines) = clock + 1
         /\ file.lines[1] = Header
         /\ \A i \in 2 .. Len(file.lines) :
              /\ file.lines[i].kind = "row"
              /\ file.lines[i].Timestamp = i - 2
              /\ file.lines[i].Name # ""
              /\ file.lines[i].Feedback # ""
    ELSE clock = 0 /\ file.lines = <<>>

\* what one submission does to the file
C8_Submission ==
    button' = "feedback" =>
        IF name' # "" /\ feedback_text' # ""
        THEN file'.lines =
                 (IF file.exists THEN file.lines ELSE <<Header>>)
                     \o <<Row(clock, name', feedback_text')>>
        ELSE file' = file

\* C8: with submissions made one at a time, feedback.csv is always one
\* header followed by one row per accepted submission in submission order;
\* an accepted submission adds its row at the end and changes nothing
\* before it, and a submission with an empty name or empty feedback leaves
\* the file unchanged.
C8_AppendOnly == [](C8_FileShape) /\ [][C8_Submission]_vars

C8_Witness ==
    /\ button = "feedback"
    /\ feedback_text = ""
    /\ Len(file.lines) = 3
    /\ file.lines[2].Timestamp = 0
    /\ file.lines[3].Timestamp = 1

-----------------------------------------------------------------------------
(* Several sessions submit feedback at once.  Each runs the handler in its *)
(* own thread; the check of line 268 and the write of lines 271-274 are    *)
(* separate steps with nothing held in between.                            *)

Sessions == 1 .. NSessions

SessionName(s) ==
    IF s = 1 THEN "ann" ELSE IF s = 2 THEN "bob" ELSE IF s = 3 THEN "cyd" ELSE "dee"

InitConc ==
    /\ InitPage
    /\ sess = [s \in Sessions |->
                 [pc |-> "idle", row |-> Row(0, "", ""), file_exists |-> FALSE]]

\* lines 260-268: the handler up to and including os.path.isfile
FbCheck(s, t) ==
    /\ sess[s].pc = "idle"
    /\ (SessionName(s) # "" /\ t # "") => clock < MaxConcurrent
    /\ IF SessionName(s) # "" /\ t # ""
       THEN /\ sess' = [sess EXCEPT ![s] =
                          [pc |-> "checked", row |-> Row(clock, SessionName(s), t),
                           file_exists |-> file.exists]]
            /\ clock' = clock + 1
       ELSE UNCHANGED <<sess, clock>>
    /\ UNCHANGED <<widgets, button, ns, name, feedback_text, file, ref>>

\* lines 269-276: the write
FbWrite(s) ==
    /\ sess[s].pc = "checked"
    /\ file' = ToCsv(file, sess[s].row, sess[s].file_exists)
    /\ sess' = [sess EXCEPT ![s].pc = "idle"]
    /\ UNCHANGED <<widgets, button, ns, name, feedback_text, clock, ref>>

NextConc ==
    \/ \E s \in Sessions, t \in Texts : FbCheck(s, t)
    \/ \E s \in Sessions : FbWrite(s)

SpecConc == InitConc /\ [][NextConc]_vars

\* feedback submissions whose write has been made
Written == clock - Cardinality({s \in Sessions : sess[s].pc = "checked"})

\* C10: with concurrent submissions feedback.csv is not always one header
\* followed by one row per accepted submission: a submission that saw the
\* file absent truncates what was written meanwhile, so rows are lost.  What
\* does hold: the file starts with one header, every other line is the row
\* of a distinct accepted submission, and there are at most as many rows as
\* writes made.
C10_HeaderAndSomeRows ==
    IF file.exists
    THEN /\ Written >= 1
         /\ file.lines[1] = Header
         /\ Len(file.lines) >= 2
         /\ Len(file.lines) - 1 <= Written
         /\ \A i \in 2 .. Len(file.lines) :
              /\ file.lines[i].kind = "row"
              /\ file.lines[i].Timestamp < clock
              /\ \A j \in 2 .. Len(file.lines) :
                   file.lines[i].Timestamp = file.lines[j].Timestamp => i = j
    ELSE Written = 0

\* two submissions were accepted and written, and one row is missing
C10_RowLost ==
    /\ \A s \in Sessions : sess[s].pc = "idle"
    /\ clock >= 2
    /\ Written = clock
    /\ file.exists
    /\ Len(file.lines) - 1 < Written
====
